---- MODULE Spec2Model ----
(***************************************************************************)
(* Model of vimiv's typed settings registry (vimiv/api/settings.py) and   *)
(* of its command runner (vimiv/commands/runners.py).                      *)
(*                                                                         *)
(* Python values are records [t, n, s]: t is the Python type, n the number *)
(* it holds and s the characters of a string.  A float is held in halves   *)
(* (n = 3 is 1.5), which keeps the float arithmetic of the model exact;    *)
(* NaN and the infinities are values of their own.                         *)
(***************************************************************************)
EXTENDS Integers, Sequences, FiniteSets, TLC

VARIABLES
    storage,    \* _storage: name -> Setting (its attributes)
    emitted,    \* the changed signals emitted by the last call, in order
    last,       \* the last call: operation, setting, input, outcome
    askCalls,   \* how often prompt.ask_question has been invoked
    detached,   \* the settings of the sort namespace that are registered no more
    setter,     \* the call of the value setter under way, step by step
    runner      \* the last call of the CommandRunner

vars == <<storage, emitted, last, askCalls, detached, setter, runner>>

\* Largest magnitude a stored number may reach through add and multiply.
MaxNum == 3
\* Largest number of confirmations asked in one run.
MaxAsk == 3

(***************************************************************************)
(* Python values                                                           *)
(***************************************************************************)
NoChars == << >>
PyNone == [t |-> "none", n |-> 0, s |-> NoChars]
PyBool(b) == [t |-> "bool", n |-> IF b THEN 1 ELSE 0, s |-> NoChars]
PyInt(k) == [t |-> "int", n |-> k, s |-> NoChars]
\* a finite float, h halves
PyFloat(h) == [t |-> "float", n |-> h, s |-> NoChars]
PyNaN == [t |-> "nan", n |-> 0, s |-> NoChars]
\* sign is 1 or -1
PyInf(sign) == [t |-> "inf", n |-> sign, s |-> NoChars]
PyStr(chars) == [t |-> "str", n |-> 0, s |-> chars]
\* a member of PromptSetting.Options, by its value
PyOpt(chars) == [t |-> "opt", n |-> 0, s |-> chars]

IsFloat(v) == v.t \in {"float", "nan", "inf"}
IsFinite(v) == v.t \in {"bool", "int", "float"}

\* the value of a finite number in halves
Halves(v) == IF v.t = "float" THEN v.n ELSE 2 * v.n

Abs(k) == IF k < 0 THEN -k ELSE k
Sign(k) == IF k < 0 THEN -1 ELSE IF k > 0 THEN 1 ELSE 0

\* Python's ==: numbers compare by value across bool, int and float, NaN
\* equals nothing, everything else compares within its own type.
PyEq(a, b) ==
    IF a.t = "nan" \/ b.t = "nan" THEN FALSE
    ELSE IF IsFinite(a) /\ IsFinite(b) THEN Halves(a) = Halves(b)
    ELSE a = b

PyNe(a, b) == ~PyEq(a, b)

\* Python's a < b on numbers: every comparison with NaN is false.
PyLt(a, b) ==
    IF a.t = "nan" \/ b.t = "nan" THEN FALSE
    ELSE IF a.t = "inf" THEN a.n = -1 /\ ~(b.t = "inf" /\ b.n = -1)
    ELSE IF b.t = "inf" THEN b.n = 1
    ELSE Halves(a) < Halves(b)

(***************************************************************************)
(* Strings                                                                 *)
(***************************************************************************)
UpperChars == <<"A", "B", "C", "D", "E", "F", "G", "H", "I", "J", "K", "L", "M",
                "N", "O", "P", "Q", "R", "S", "T", "U", "V", "W", "X", "Y", "Z">>
LowerChars == <<"a", "b", "c", "d", "e", "f", "g", "h", "i", "j", "k", "l", "m",
                "n", "o", "p", "q", "r", "s", "t", "u", "v", "w", "x", "y", "z">>
DigitChars == <<"0", "1", "2", "3", "4", "5", "6", "7", "8", "9">>

LowerChar(c) ==
    IF \E i \in DOMAIN UpperChars : UpperChars[i] = c
    THEN LowerChars[CHOOSE i \in DOMAIN UpperChars : UpperChars[i] = c]
    ELSE c

\* str.lower()
Lower(chars) == [i \in DOMAIN chars |-> LowerChar(chars[i])]

IsDigit(c) == \E i \in DOMAIN DigitChars : DigitChars[i] = c
DigitVal(c) == (CHOOSE i \in DOMAIN DigitChars : DigitChars[i] = c) - 1

RECURSIVE Strip(_)
\* str.strip() of blanks
Strip(chars) ==
    IF chars = NoChars THEN chars
    ELSE IF Head(chars) = " " THEN Strip(Tail(chars))
    ELSE IF chars[Len(chars)] = " " THEN Strip(SubSeq(chars, 1, Len(chars) - 1))
    ELSE chars

AllDigits(chars) == chars # NoChars /\ \A i \in DOMAIN chars : IsDigit(chars[i])

RECURSIVE DigitsVal(_)
DigitsVal(chars) ==
    IF chars = NoChars THEN 0
    ELSE 10 * DigitsVal(SubSeq(chars, 1, Len(chars) - 1)) + DigitVal(chars[Len(chars)])

RECURSIVE NatChars(_)
\* the decimal digits of a natural number
NatChars(k) ==
    IF k < 10 THEN <<DigitChars[k + 1]>>
    ELSE NatChars(k \div 10) \o <<DigitChars[(k % 10) + 1]>>

(***************************************************************************)
(* The types' constructors: typ(value)                                     *)
(***************************************************************************)
Ok(v) == [ok |-> TRUE, val |-> v, exc |-> "none"]
Raise(exc) == [ok |-> FALSE, val |-> PyNone, exc |-> exc]

\* int(x) truncates a float towards zero
Trunc(h) == IF h >= 0 THEN h \div 2 ELSE -((-h) \div 2)

\* the characters after an optional sign, and the sign
Unsigned(chars) ==
    IF chars # NoChars /\ Head(chars) \in {"+", "-"} THEN Tail(chars) ELSE chars
SignOf(chars) == IF chars # NoChars /\ Head(chars) = "-" THEN -1 ELSE 1

\* int(text): blanks stripped, an optional sign, decimal digits
IntParse(chars) ==
    LET Parse(text) ==
            IF AllDigits(Unsigned(text))
            THEN Ok(PyInt(SignOf(text) * DigitsVal(Unsigned(text))))
            ELSE Raise("ValueError")
    IN  Parse(Strip(chars))

\* the place of the decimal point, 0 if there is none
PointAt(chars) ==
    IF \E i \in DOMAIN chars : chars[i] = "."
    THEN CHOOSE i \in DOMAIN chars : chars[i] = "." /\ \A j \in 1..(i - 1) : chars[j] # "."
    ELSE 0

\* a fraction the halves can hold: nothing, zeros, or a 5 followed by zeros
FracHalves(frac) ==
    IF \A i \in DOMAIN frac : frac[i] = "0" THEN 0
    ELSE IF frac[1] = "5" /\ \A i \in 2..Len(frac) : frac[i] = "0" THEN 1
    ELSE -1

\* float(text): blanks stripped, an optional sign, then nan, inf or infinity in
\* any letter case, or digits with an optional decimal point.  Exponents, and
\* fractions other than .0 and .5, are outside the floats the model holds and
\* outside the inputs it draws.
FloatParse(chars) ==
    LET Decimal(sign, whole, frac) ==
            IF /\ whole \o frac # NoChars
               /\ \A i \in DOMAIN whole : IsDigit(whole[i])
               /\ \A i \in DOMAIN frac : IsDigit(frac[i])
               /\ FracHalves(frac) >= 0
            THEN Ok(PyFloat(sign * (2 * DigitsVal(whole) + FracHalves(frac))))
            ELSE Raise("ValueError")
        Split(sign, body, p) ==
            IF p = 0 THEN Decimal(sign, body, NoChars)
            ELSE Decimal(sign, SubSeq(body, 1, p - 1), SubSeq(body, p + 1, Len(body)))
        Body(sign, body) ==
            IF body = <<"n", "a", "n">> THEN Ok(PyNaN)
            ELSE IF body \in {<<"i", "n", "f">>, <<"i", "n", "f", "i", "n", "i", "t", "y">>}
            THEN Ok(PyInf(sign))
            ELSE Split(sign, body, PointAt(body))
        Parse(text) == Body(SignOf(text), Lower(Unsigned(text)))
    IN  Parse(Strip(chars))

\* int(x)
IntOf(v) ==
    CASE v.t = "str" -> IntParse(v.s)
      [] v.t \in {"bool", "int"} -> Ok(PyInt(v.n))
      [] v.t = "float" -> Ok(PyInt(Trunc(v.n)))
      [] v.t = "nan" -> Raise("ValueError")
      [] v.t = "inf" -> Raise("OverflowError")
      [] OTHER -> Raise("TypeError")

\* float(x)
FloatOf(v) ==
    CASE v.t = "str" -> FloatParse(v.s)
      [] v.t \in {"bool", "int"} -> Ok(PyFloat(2 * v.n))
      [] v.t \in {"float", "nan", "inf"} -> Ok(v)
      [] OTHER -> Raise("TypeError")

\* bool(x): the truth value of any object
BoolOf(v) ==
    CASE v.t = "str" -> Ok(PyBool(v.s # NoChars))
      [] v.t \in {"bool", "int", "float"} -> Ok(PyBool(v.n # 0))
      [] v.t = "none" -> Ok(PyBool(FALSE))
      [] OTHER -> Ok(PyBool(TRUE))

IntChars(k) == IF k < 0 THEN <<"-">> \o NatChars(-k) ELSE NatChars(k)

\* str(x)
StrOf(v) ==
    CASE v.t \in {"str", "opt"} -> Ok(PyStr(v.s))
      [] v.t = "bool" -> Ok(PyStr(IF v.n = 1 THEN <<"T", "r", "u", "e">>
                                             ELSE <<"F", "a", "l", "s", "e">>))
      [] v.t = "int" -> Ok(PyStr(IntChars(v.n)))
      [] v.t = "float" ->
            Ok(PyStr((IF v.n < 0 THEN <<"-">> ELSE NoChars)
                     \o NatChars(Abs(v.n) \div 2)
                     \o (IF Abs(v.n) % 2 = 0 THEN <<".", "0">> ELSE <<".", "5">>)))
      [] v.t = "nan" -> Ok(PyStr(<<"n", "a", "n">>))
      [] v.t = "inf" -> Ok(PyStr((IF v.n < 0 THEN <<"-">> ELSE NoChars) \o <<"i", "n", "f">>))
      [] OTHER -> Ok(PyStr(<<"N", "o", "n", "e">>))

TRUE_ == <<"t", "r", "u", "e">>
FALSE_ == <<"f", "a", "l", "s", "e">>
ASK == <<"a", "s", "k">>

\* the values of PromptSetting.Options
OptionValues == {TRUE_, FALSE_, ASK}

\* Options(x): a member stays itself, a string is looked up by value
Options(v) ==
    IF v.t = "opt" THEN Ok(v)
    ELSE IF v.t = "str" /\ v.s \in OptionValues THEN Ok(PyOpt(v.s))
    ELSE Raise("ValueError")

(***************************************************************************)
(* Settings                                                                *)
(***************************************************************************)
ALLOWED_VALUES == <<64, 128, 256, 512>>

ALPHABETICAL == <<"a", "l", "p", "h", "a", "b", "e", "t", "i", "c", "a", "l">>
NATURAL == <<"n", "a", "t", "u", "r", "a", "l">>
RECENTLY_MODIFIED == <<"r", "e", "c", "e", "n", "t", "l", "y", "-",
                       "m", "o", "d", "i", "f", "i", "e", "d">>
NONE_ == <<"n", "o", "n", "e">>
SIZE == <<"s", "i", "z", "e">>

\* the keys of OrderSetting.ORDER_TYPES
ORDER_TYPES == {ALPHABETICAL, NATURAL, RECENTLY_MODIFIED, NONE_}

\* str(setting): the display name of each subclass
DisplayName(kind) ==
    CASE kind = "Bool" -> "Bool"
      [] kind = "Prompt" -> "Prompt"
      [] kind = "Int" -> "Integer"
      [] kind = "Float" -> "Float"
      [] kind = "ThumbnailSize" -> "ThumbSize"
      [] kind = "Str" -> "String"
      [] kind = "Order" -> "Order"

NoError == [exc |-> "none", msg |-> "", value |-> PyNone, name |-> ""]
Good(v) == [ok |-> TRUE, val |-> v, err |-> NoError]
Fail(exc, msg, value, name) ==
    [ok |-> FALSE, val |-> PyNone,
     err |-> [exc |-> exc, msg |-> msg, value |-> value, name |-> name]]

\* Setting.__init__ and the subclasses' __init__: the attributes of a setting
NewSetting(kind, default_value, suggestions, min_value, max_value, order_types) ==
    [kind |-> kind, value |-> default_value, default |-> default_value,
     suggestions |-> suggestions,
     min_value |-> min_value, max_value |-> max_value, order_types |-> order_types]

\* the typ attribute of each subclass, applied to a value
Typ(kind, v) ==
    CASE kind = "Bool" -> BoolOf(v)
      [] kind = "Prompt" -> Options(v)
      [] kind \in {"Int", "ThumbnailSize"} -> IntOf(v)
      [] kind = "Float" -> FloatOf(v)
      [] kind \in {"Str", "Order"} -> StrOf(v)

\* a parse of the boolean words that does not lower the text first
BoolConvertStrCased(text) ==
    IF text \in {<<"y", "e", "s">>, TRUE_, <<"1">>} THEN Ok(PyBool(TRUE))
    ELSE IF text \in {<<"n", "o">>, FALSE_, <<"0">>} THEN Ok(PyBool(FALSE))
    ELSE Raise("ValueError")

\* BoolSetting.convertstr
BoolConvertStr(text) ==
    LET Parse(low) ==
            IF low \in {<<"y", "e", "s">>, TRUE_, <<"1">>} THEN Ok(PyBool(TRUE))
            ELSE IF low \in {<<"n", "o">>, FALSE_, <<"0">>} THEN Ok(PyBool(FALSE))
            ELSE Raise("ValueError")
    IN  Parse(Lower(text))

\* a parse that takes every unknown word for ask
PromptConvertStrLenient(text) ==
    LET Parse(low) ==
            IF low \in {<<"y", "e", "s">>, TRUE_, <<"1">>} THEN Ok(PyOpt(TRUE_))
            ELSE IF low \in {<<"n", "o">>, FALSE_, <<"0">>} THEN Ok(PyOpt(FALSE_))
            ELSE Ok(PyOpt(ASK))
    IN  Parse(Lower(text))

\* PromptSetting.convertstr
PromptConvertStr(text) ==
    LET Parse(low) ==
            IF low \in {<<"y", "e", "s">>, <<"1">>} THEN Ok(PyOpt(TRUE_))
            ELSE IF low \in {<<"n", "o">>, <<"0">>} THEN Ok(PyOpt(FALSE_))
            ELSE Options(PyStr(low))
    IN  Parse(Lower(text))

\* Setting.convertstr and its overrides
ConvertStr(kind, text) ==
    CASE kind = "Bool" -> BoolConvertStr(text)
      [] kind = "Prompt" -> PromptConvertStr(text)
      [] OTHER -> Typ(kind, PyStr(text))

\* a conversion whose error names neither the value nor the setting
BaseConvertBareError(st, value) ==
    LET Reraise(r) ==
            IF r.ok THEN Good(r.val)
            ELSE IF r.exc = "ValueError" THEN Fail("ValueError", "Cannot convert", PyNone, "")
            ELSE Fail(r.exc, "", PyNone, "")
    IN  Reraise(IF value.t = "str" THEN ConvertStr(st.kind, value.s) ELSE Typ(st.kind, value))

\* Setting.convert: a ValueError of the conversion is raised again with the
\* value and the setting's display name; any other exception passes through.
BaseConvert(st, value) ==
    LET Reraise(r) ==
            IF r.ok THEN Good(r.val)
            ELSE IF r.exc = "ValueError"
            THEN Fail("ValueError", "Cannot convert", value, DisplayName(st.kind))
            ELSE Fail(r.exc, "", PyNone, "")
    IN  Reraise(IF value.t = "str" THEN ConvertStr(st.kind, value.s) ELSE Typ(st.kind, value))

\* utils.clamp: max(value, minimum) then min(value, maximum), None is no boundary
clamp(value, minimum, maximum) ==
    LET Min(low) == IF maximum # PyNone /\ PyLt(maximum, low) THEN maximum ELSE low
    IN  Min(IF minimum # PyNone /\ PyLt(value, minimum) THEN minimum ELSE value)

\* NumberSetting.convert
NumberConvert(st, value) ==
    LET Clamped(r) == IF r.ok THEN Good(clamp(r.val, st.min_value, st.max_value)) ELSE r
    IN  Clamped(BaseConvert(st, value))

\* a conversion that takes every integer for a thumbnail size
ThumbnailSizeAnyInt(st, value) == BaseConvert(st, value)

\* ThumbnailSizeSetting.convert
ThumbnailSizeConvert(st, value) ==
    LET Allowed(r) ==
            IF ~r.ok THEN r
            ELSE IF \E i \in DOMAIN ALLOWED_VALUES : ALLOWED_VALUES[i] = r.val.n THEN r
            ELSE Fail("ValueError", "Thumbnail size must be one of", PyNone, "")
    IN  Allowed(BaseConvert(st, value))

\* OrderSetting.convert
OrderConvert(st, value) ==
    IF value.t = "str" /\ value.s \in st.order_types THEN Good(value)
    ELSE Fail("ValueError", "Option must be one of", PyNone, "")

\* convert, as the setting's class defines it
Convert(st, value) ==
    CASE st.kind \in {"Int", "Float"} -> NumberConvert(st, value)
      [] st.kind = "ThumbnailSize" -> ThumbnailSizeConvert(st, value)
      [] st.kind = "Order" -> OrderConvert(st, value)
      [] OTHER -> BaseConvert(st, value)

\* The value setter.  The outcome of a call on one setting: the setting after
\* it, the values its changed signal was emitted with, and the error raised.
Outcome(st, sig, err) == [st |-> st, sig |-> sig, err |-> err]

\* the setter without its comparison: every accepted value is stored and emitted
AssignAlwaysEmits(st, value) ==
    LET Store(c) ==
            IF ~c.ok THEN Outcome(st, << >>, c.err)
            ELSE Outcome([st EXCEPT !.value = c.val], <<c.val>>, NoError)
    IN  Store(Convert(st, value))

\* a setter that stores the value as given before it converts it
AssignStoresUnconverted(st, value) ==
    LET Store(c) ==
            IF ~c.ok THEN Outcome([st EXCEPT !.value = value], << >>, c.err)
            ELSE IF PyNe(c.val, st.value)
            THEN Outcome([st EXCEPT !.value = c.val], <<c.val>>, NoError)
            ELSE Outcome(st, << >>, NoError)
    IN  Store(Convert(st, value))

Assign(st, value) ==
    LET Store(c) ==
            IF ~c.ok THEN Outcome(st, << >>, c.err)
            ELSE IF PyNe(c.val, st.value)
            THEN Outcome([st EXCEPT !.value = c.val], <<c.val>>, NoError)
            ELSE Outcome(st, << >>, NoError)
    IN  Store(Convert(st, value))

\* a reset that assigns the value the setting was constructed to hold last
SetToDefaultKeepsValue(st) == Assign(st, st.value)

\* Setting.set_to_default
SetToDefaultOf(st) == Assign(st, st.default)

\* BoolSetting.toggle
ToggleOf(st) == Assign(st, PyBool(~(BoolOf(st.value).val.n = 1)))

\* Python's + and * on the numbers of the model
PyAdd(a, b) ==
    IF ~IsFloat(a) /\ ~IsFloat(b) THEN PyInt(a.n + b.n)
    ELSE IF a.t = "nan" \/ b.t = "nan" THEN PyNaN
    ELSE IF a.t = "inf" /\ b.t = "inf" THEN (IF a.n = b.n THEN a ELSE PyNaN)
    ELSE IF a.t = "inf" THEN a
    ELSE IF b.t = "inf" THEN b
    ELSE PyFloat(Halves(a) + Halves(b))

PyMul(a, b) ==
    IF ~IsFloat(a) /\ ~IsFloat(b) THEN PyInt(a.n * b.n)
    ELSE IF a.t = "nan" \/ b.t = "nan" THEN PyNaN
    ELSE IF a.t = "inf" /\ b.t = "inf" THEN PyInf(a.n * b.n)
    ELSE IF a.t = "inf" THEN (IF Halves(b) = 0 THEN PyNaN ELSE PyInf(a.n * Sign(Halves(b))))
    ELSE IF b.t = "inf" THEN (IF Halves(a) = 0 THEN PyNaN ELSE PyInf(b.n * Sign(Halves(a))))
    ELSE PyFloat((Halves(a) * Halves(b)) \div 2)

\* an addition whose operand is clamped to the bounds before it is added
IAddClampsOperand(st, value) ==
    LET Sum(c) == IF ~c.ok THEN Outcome(st, << >>, c.err) ELSE Assign(st, PyAdd(st.value, c.val))
    IN  Sum(NumberConvert(st, value))

\* NumberSetting.__iadd__
IAdd(st, value) ==
    LET Sum(c) == IF ~c.ok THEN Outcome(st, << >>, c.err) ELSE Assign(st, PyAdd(st.value, c.val))
    IN  Sum(BaseConvert(st, value))

\* NumberSetting.__imul__
IMul(st, value) ==
    LET Product(c) ==
            IF ~c.ok THEN Outcome(st, << >>, c.err) ELSE Assign(st, PyMul(st.value, c.val))
    IN  Product(BaseConvert(st, value))

\* ALLOWED_VALUES.index(value), counted from 0
IndexOf(value) == (CHOOSE i \in DOMAIN ALLOWED_VALUES : ALLOWED_VALUES[i] = value.n) - 1

\* a step that wraps around at the ends instead of stopping there
StepWraps(st, up) ==
    Assign(st, PyInt(ALLOWED_VALUES[
        ((IndexOf(st.value) + (IF up THEN 1 ELSE -1)) % Len(ALLOWED_VALUES)) + 1]))

\* ThumbnailSizeSetting.step; index raises ValueError for a value that is not
\* in the list, which only a setting constructed with such a default holds
StepOf(st, up) ==
    LET At(index) == Assign(st, PyInt(ALLOWED_VALUES[index.n + 1]))
    IN  IF \A i \in DOMAIN ALLOWED_VALUES : ALLOWED_VALUES[i] # st.value.n
        THEN Outcome(st, << >>, Fail("ValueError", "is not in list", PyNone, ""))
        ELSE At(clamp(PyInt(IndexOf(st.value) + (IF up THEN 1 ELSE -1)),
                      PyInt(0), PyInt(Len(ALLOWED_VALUES) - 1)))

(***************************************************************************)
(* OrderSetting.sort                                                       *)
(***************************************************************************)
\* the characters of the model in the order of their code points
Ascii == <<" ", "-", ".">> \o DigitChars \o UpperChars \o <<"_">> \o LowerChars
CodePoint(c) == CHOOSE i \in DOMAIN Ascii : Ascii[i] = c

RECURSIVE StrLt(_, _)
\* Python's a < b on strings: by code point, a proper prefix first
StrLt(a, b) ==
    IF b = NoChars THEN FALSE
    ELSE IF a = NoChars THEN TRUE
    ELSE IF CodePoint(Head(a)) < CodePoint(Head(b)) THEN TRUE
    ELSE IF CodePoint(Head(b)) < CodePoint(Head(a)) THEN FALSE
    ELSE StrLt(Tail(a), Tail(b))

\* A sort key is a list of parts, each a string or a number; a key function
\* that returns one string or one number returns a list of one part.
StrPart(chars) == [t |-> "str", n |-> 0, s |-> chars]
IntPart(k) == [t |-> "int", n |-> k, s |-> NoChars]
PartLt(a, b) == IF a.t = "int" THEN a.n < b.n ELSE StrLt(a.s, b.s)

RECURSIVE KeyLt(_, _)
\* Python's a < b on the keys
KeyLt(a, b) ==
    IF b = << >> THEN FALSE
    ELSE IF a = << >> THEN TRUE
    ELSE IF PartLt(Head(a), Head(b)) THEN TRUE
    ELSE IF PartLt(Head(b), Head(a)) THEN FALSE
    ELSE KeyLt(Tail(a), Tail(b))

\* the length of the longest prefix of chars that is all digits, or has none
RunLen(chars, digits) ==
    IF \E i \in DOMAIN chars : IsDigit(chars[i]) # digits
    THEN (CHOOSE i \in DOMAIN chars :
              /\ IsDigit(chars[i]) # digits
              /\ \A j \in 1..(i - 1) : IsDigit(chars[j]) = digits) - 1
    ELSE Len(chars)

RECURSIVE Runs(_, _)
\* re.split(r"(\d+)", text): the text between the numbers and the numbers, in turn
Runs(chars, digits) ==
    LET Cut(k) ==
            <<IF digits THEN IntPart(DigitsVal(SubSeq(chars, 1, k)))
              ELSE StrPart(SubSeq(chars, 1, k))>>
            \o (IF k = Len(chars) /\ ~digits THEN << >>
                ELSE Runs(SubSeq(chars, k + 1, Len(chars)), ~digits))
    IN  Cut(RunLen(chars, digits))

\* utils.natural_sort: the numbers in a text compare as numbers
natural_sort(chars) == Runs(chars, FALSE)

\* The files of the model: os.path.getmtime and os.path.getsize of a path are
\* taken from its length and its first character.
getmtime(path) == IntPart(IF path = NoChars THEN 0 ELSE 100 - CodePoint(Head(path)))
getsize(path) == IntPart(Len(path))

\* the functions of order_types
Ordering(strategy, path) ==
    CASE strategy = ALPHABETICAL -> <<StrPart(path)>>
      [] strategy = NATURAL -> natural_sort(path)
      [] strategy = RECENTLY_MODIFIED -> <<getmtime(path)>>
      [] strategy = SIZE -> <<getsize(path)>>
      [] OTHER -> <<IntPart(0)>>

STR_ORDER_TYPES == {ALPHABETICAL, NATURAL}

\* OrderSetting._get_ordering, applied to a path
GetOrdering(st, ignore_case, path) ==
    IF st.value.s \notin STR_ORDER_TYPES THEN Ordering(st.value.s, path)
    ELSE IF ignore_case THEN Ordering(st.value.s, Lower(path))
    ELSE Ordering(st.value.s, path)

RECURSIVE Insert(_, _, _, _, _)
\* x put behind every item it does not sort before
Insert(acc, x, st, ignore_case, reverse) ==
    LET Before(e) ==
            IF reverse THEN KeyLt(GetOrdering(st, ignore_case, e), GetOrdering(st, ignore_case, x))
            ELSE KeyLt(GetOrdering(st, ignore_case, x), GetOrdering(st, ignore_case, e))
    IN  IF acc = << >> THEN <<x>>
        ELSE IF Before(Head(acc)) THEN <<x>> \o acc
        ELSE <<Head(acc)>> \o Insert(Tail(acc), x, st, ignore_case, reverse)

RECURSIVE Sorted(_, _, _, _, _)
\* sorted(values, key=ordering, reverse=reverse): a stable sort, which keeps
\* items of equal keys in the order of values whether reversed or not
Sorted(values, i, st, ignore_case, reverse) ==
    IF i = 0 THEN << >>
    ELSE Insert(Sorted(values, i - 1, st, ignore_case, reverse), values[i],
                st, ignore_case, reverse)

\* a sort that does not look at the reverse flag
SortAscending(st, values, ignore_case, reverse) ==
    [ret |-> Sorted(values, Len(values), st, ignore_case, FALSE), values |-> values]

\* OrderSetting.sort: the list returned, and the list passed after the call
SortOf(st, values, ignore_case, reverse) ==
    [ret |-> Sorted(values, Len(values), st, ignore_case, reverse), values |-> values]

(***************************************************************************)
(* The registry after the module is loaded                                 *)
(***************************************************************************)
\* The catalog registers some forty settings of the seven classes.  A setting
\* reads no other setting, except that OrderSetting.sort reads sort.reverse
\* and sort.ignore_case, so the model registers one setting of each class in
\* turn, its constructor arguments drawn from small sets (the catalog's
\* numbers scaled down), and beside it the Bool settings of the catalog that
\* an OrderSetting reads (sort.reverse alone beside the other classes).  A default is, as in
\* the catalog, a value of the setting's type that its conversion accepts.
DEFAULT_STYLE == <<"d", "e", "f", "a", "u", "l", "t">>

Catalog ==
    {[name |-> "image.autowrite", st |-> NewSetting("Prompt", PyOpt(o), << >>, PyNone, PyNone, {})] :
        o \in OptionValues}
    \cup
    {[name |-> "keyhint.delay", st |-> NewSetting("Int", PyInt(1), << >>, lo, hi, {})] :
        lo \in {PyNone, PyInt(0)}, hi \in {PyNone, PyInt(2)}}
    \cup
    {[name |-> "slideshow.delay", st |-> NewSetting("Float", PyFloat(2), << >>, lo, hi, {})] :
        lo \in {PyNone, PyFloat(1)}, hi \in {PyNone, PyFloat(4)}}
    \cup
    {[name |-> "thumbnail.size", st |-> NewSetting("ThumbnailSize", PyInt(128), << >>, PyNone, PyNone, {})]}
    \cup
    {[name |-> "style", st |-> NewSetting("Str", PyStr(DEFAULT_STYLE), << >>, PyNone, PyNone, {})]}
    \cup
    {[name |-> "sort.image_order",
      st |-> NewSetting("Order", PyStr(ALPHABETICAL), << >>, PyNone, PyNone, ORDER_TYPES \cup more)] :
        more \in {{}, {SIZE}}}

\* no call of the setter is under way
NoSetter ==
    [pc |-> "idle", name |-> "", input |-> PyNone, new_value |-> PyNone, before |-> PyNone,
     queue |-> << >>, seen |-> << >>]

\* the CommandRunner has not been called
NoRunner ==
    [text |-> NoChars, exc |-> "none", exited |-> << >>, invoked |-> FALSE, raised |-> "none",
     cmdname |-> NoChars, count |-> NoChars, args |-> << >>]

NoCall ==
    [op |-> "init", name |-> "", input |-> PyNone, before |-> PyNone,
     err |-> NoError, ret |-> PyNone, asks |-> 0]

\* the Bool settings registered beside a setting of the catalog
Companions(c) ==
    IF c.st.kind = "Order" THEN {"sort.reverse", "sort.ignore_case"} ELSE {"sort.reverse"}

Init ==
    /\ \E c \in Catalog :
          storage = [n \in Companions(c) \cup {c.name} |->
                        IF n = c.name THEN c.st
                        ELSE NewSetting("Bool", PyBool(FALSE), << >>, PyNone, PyNone, {})]
    /\ emitted = << >>
    /\ last = NoCall
    /\ askCalls = 0
    /\ detached = << >>
    /\ setter = NoSetter
    /\ runner = NoRunner

(***************************************************************************)
(* The inputs of the calls                                                 *)
(***************************************************************************)
StrInputs ==
    { NoChars, <<"y", "e", "s">>, <<"Y", "E", "S">>, TRUE_, <<"T", "r", "u", "e">>,
      <<"1">>, <<"n", "o">>, FALSE_, <<"F", "A", "L", "S", "E">>, <<"0">>,
      ASK, <<"A", "s", "k">>, <<"m", "a", "y", "b", "e">>, <<"p", "r", "o", "m", "p", "t">>,
      <<"2">>, <<"-", "1">>, <<" ", "3", " ">>, <<"1", ".", "5">>, <<"n", "a", "n">>,
      <<"i", "n", "f">>, <<"2", "5", "6">>, <<"1", "0", "0">>, <<"a", "b", "c">>,
      ALPHABETICAL, NONE_, SIZE, <<"N", "a", "t", "u", "r", "a", "l">>,
      NATURAL, RECENTLY_MODIFIED }

NativeInputs ==
    {PyBool(TRUE), PyBool(FALSE), PyNone, PyNaN, PyInf(1), PyInf(-1)}
    \cup {PyInt(k) : k \in {-1, 0, 1, 3, 64, 100, 256}}
    \cup {PyFloat(h) : h \in {-1, 3, 10}}
    \cup {PyOpt(o) : o \in OptionValues}

Inputs == {PyStr(c) : c \in StrInputs} \cup NativeInputs

\* operands of add and multiply
Operands ==
    {PyInt(k) : k \in {-1, 0, 1, 2}} \cup {PyFloat(1), PyFloat(-4), PyInf(-1), PyNaN, PyNone}
    \cup {PyStr(c) : c \in {<<"1">>, <<"-", "1">>, <<"2">>, <<"0", ".", "5">>,
                            <<"i", "n", "f">>, <<"a", "b", "c">>}}

(***************************************************************************)
(* The calls                                                               *)
(***************************************************************************)
Names == DOMAIN storage

Signals(name, sig) == [i \in DOMAIN sig |-> [name |-> name, value |-> sig[i]]]

\* a call on the setting registered under name, with the outcome out
Call(op, name, input, out) ==
    /\ storage' = [storage EXCEPT ![name] = out.st]
    /\ emitted' = Signals(name, out.sig)
    /\ last' = [op |-> op, name |-> name, input |-> input, before |-> storage[name].value,
                err |-> out.err, ret |-> PyNone, asks |-> 0]
    /\ UNCHANGED <<askCalls, detached, setter, runner>>

\* setting.value = x
SetValue(name, x) == Call("set", name, x, Assign(storage[name], x))

\* setting.set_to_default()
SetToDefault(name) == Call("default", name, PyNone, SetToDefaultOf(storage[name]))

\* setting.toggle()
Toggle(name) ==
    /\ storage[name].kind = "Bool"
    /\ Call("toggle", name, PyNone, ToggleOf(storage[name]))

\* a stored number the model holds: not beyond MaxNum
InRange(v) == IsFinite(v) => Abs(Halves(v)) <= 2 * MaxNum

\* the product of two finite floats is held exactly
Exact(a, b) == (IsFinite(a) /\ IsFinite(b)) => (Halves(a) * Halves(b)) % 2 = 0

\* setting += x
Add(name, x) ==
    LET Held(out) == InRange(out.st.value) /\ Call("add", name, x, out)
    IN  /\ storage[name].kind \in {"Int", "Float"}
        /\ Held(IAdd(storage[name], x))

\* setting *= x
Mul(name, x) ==
    LET Held(out) == InRange(out.st.value) /\ Call("mul", name, x, out)
        Whole(c) == (c.ok /\ storage[name].kind = "Float") => Exact(storage[name].value, c.val)
    IN  /\ storage[name].kind \in {"Int", "Float"}
        /\ Whole(BaseConvert(storage[name], x))
        /\ Held(IMul(storage[name], x))

\* setting.step(up)
Step(name, up) ==
    /\ storage[name].kind = "ThumbnailSize"
    /\ Call(IF up THEN "step_up" ELSE "step_down", name, PyNone, StepOf(storage[name], up))

\* a truth value that takes ask for true without asking
PromptBoolNeverAsks(st, answer) ==
    IF PyEq(st.value, PyOpt(FALSE_)) THEN [asks |-> 0, ret |-> PyBool(FALSE)]
    ELSE [asks |-> 0, ret |-> PyBool(TRUE)]

\* PromptSetting.__bool__: whether the confirmation is asked, and the result
PromptBool(st, answer) ==
    IF PyEq(st.value, PyOpt(ASK)) THEN [asks |-> 1, ret |-> PyBool(answer)]
    ELSE IF PyEq(st.value, PyOpt(FALSE_)) THEN [asks |-> 0, ret |-> PyBool(FALSE)]
    ELSE [asks |-> 0, ret |-> PyBool(TRUE)]

\* BoolSetting.__bool__
BoolBool(st) == [asks |-> 0, ret |-> st.value]

\* bool(setting), the user answering a confirmation with answer
Truth(name, answer) ==
    LET Asked(r) ==
            /\ askCalls + r.asks <= MaxAsk
            /\ askCalls' = askCalls + r.asks
            /\ emitted' = << >>
            /\ last' = [op |-> "bool", name |-> name, input |-> PyBool(answer),
                        before |-> storage[name].value, err |-> NoError,
                        ret |-> r.ret, asks |-> r.asks]
            /\ UNCHANGED <<storage, detached, setter, runner>>
    IN  /\ storage[name].kind \in {"Bool", "Prompt"}
        /\ Asked(IF storage[name].kind = "Prompt" THEN PromptBool(storage[name], answer)
                 ELSE BoolBool(storage[name]))

\* the orders _storage.values() may visit the settings in
Orders == {o \in [1..Cardinality(Names) -> Names] : \A i, j \in DOMAIN o : o[i] = o[j] => i = j}

RECURSIVE ResetFrom(_, _, _, _)
\* reset(): set_to_default on each setting in turn, up to the first error
ResetFrom(order, i, stor, sig) ==
    LET Then(out) ==
            IF out.err # NoError THEN [stor |-> stor, sig |-> sig, err |-> out.err]
            ELSE ResetFrom(order, i + 1, [stor EXCEPT ![order[i]] = out.st],
                           sig \o Signals(order[i], out.sig))
    IN  IF i > Len(order) THEN [stor |-> stor, sig |-> sig, err |-> NoError]
        ELSE Then(SetToDefaultOf(stor[order[i]]))

\* settings.reset()
Reset ==
    LET Done(r) ==
            /\ storage' = r.stor
            /\ emitted' = r.sig
            /\ last' = [NoCall EXCEPT !.op = "reset", !.err = r.err]
            /\ UNCHANGED <<askCalls, detached, setter, runner>>
    IN  \E order \in Orders : Done(ResetFrom(order, 1, storage, << >>))

\* a list of paths
PyList(items) == [t |-> "list", n |-> 0, s |-> items]

\* the lists passed to sort
SortInputs ==
    { << >>,
      << <<"b">>, <<"A">>, <<"a">> >>,
      << <<"a">>, <<"A">>, <<"B">> >>,
      << <<"B">>, <<"a">> >>,
      << <<"a", "b">>, <<"a">>, <<"B">> >>,
      << <<"a", "1", "0">>, <<"a", "2">>, <<"A", "1">> >> }

\* the sort flags as they were when the module was loaded
SortAttrAtLoad(name) == NewSetting("Bool", PyBool(FALSE), << >>, PyNone, PyNone, {})

\* sort.reverse and sort.ignore_case: the settings the sort namespace was
\* given when the module was loaded, registered under these names or not
SortAttr(name) == IF name \in DOMAIN detached THEN detached[name] ELSE storage[name]

\* setting.sort(values)
Sort(name, values) ==
    LET Done(r) ==
            /\ last' = [op |-> "sort", name |-> name, input |-> PyList(values),
                        before |-> storage[name].value, err |-> NoError,
                        ret |-> PyList(<<r.ret, r.values>>), asks |-> 0]
            /\ emitted' = << >>
            /\ UNCHANGED <<storage, askCalls, detached, setter, runner>>
    IN  /\ storage[name].kind = "Order"
        /\ Done(SortOf(storage[name], values,
                       BoolOf(SortAttr("sort.ignore_case").value).val.n = 1,
                       SortAttr("sort.reverse").value.n = 1))

Next ==
    \/ \E name \in Names, x \in Inputs : SetValue(name, x)
    \/ \E name \in Names : SetToDefault(name)
    \/ \E name \in Names : Toggle(name)
    \/ \E name \in Names, x \in Operands : Add(name, x)
    \/ \E name \in Names, x \in Operands : Mul(name, x)
    \/ \E name \in Names, up \in BOOLEAN : Step(name, up)
    \/ \E name \in Names, answer \in BOOLEAN : Truth(name, answer)
    \/ \E name \in Names, values \in SortInputs : Sort(name, values)
    \/ Reset

Spec == Init /\ [][Next]_vars

(***************************************************************************)
(* The registry: settings constructed after the module is loaded, lookups  *)
(***************************************************************************)
\* the names of the settings OrderSetting.sort reads from the sort namespace
SortFlags == {"sort.reverse", "sort.ignore_case"}

\* the settings of the catalog these runs start from, one in each run
CatalogRegistry ==
    {c \in Catalog :
        \/ c.st.kind = "ThumbnailSize"
        \/ c.st.kind = "Int" /\ c.st.min_value = PyInt(0) /\ c.st.max_value = PyInt(2)
        \/ c.st.kind = "Order" /\ SIZE \in c.st.order_types}

InitRegistry ==
    /\ \E c \in CatalogRegistry :
          storage = [n \in Companions(c) \cup {c.name} |->
                        IF n = c.name THEN c.st
                        ELSE NewSetting("Bool", PyBool(FALSE), << >>, PyNone, PyNone, {})]
    /\ emitted = << >>
    /\ last = NoCall
    /\ askCalls = 0
    /\ detached = << >>
    /\ setter = NoSetter
    /\ runner = NoRunner

\* The settings constructed after the load: the catalog's setting once more
\* under its name, a Bool setting under the name of either sort flag,
\* registered or not, and, the constructor checking no default, a thumbnail
\* size whose default is none of the allowed values.
Constructible ==
    {c \in CatalogRegistry : c.name \in Names}
    \cup {c \in {[name |-> "thumbnail.size",
                  st |-> NewSetting("ThumbnailSize", PyInt(100), << >>, PyNone, PyNone, {})]} :
            c.name \in Names}
    \cup {[name |-> n, st |-> NewSetting("Bool", PyBool(d), << >>, PyNone, PyNone, {})] :
            n \in SortFlags, d \in BOOLEAN}

\* a registration that keeps the setting a name is already registered for
RegisterFirstWins(stor, name, st) ==
    IF name \in DOMAIN stor THEN stor
    ELSE [n \in DOMAIN stor \cup {name} |-> IF n = name THEN st ELSE stor[n]]

\* _storage[name] = self
Register(stor, name, st) ==
    [n \in DOMAIN stor \cup {name} |-> IF n = name THEN st ELSE stor[n]]

\* Setting(name, default_value, ...): the new setting takes the name in the
\* registry; the setting of the sort namespace it replaces there stays the
\* one the namespace holds.
Construct(c) ==
    /\ storage' = Register(storage, c.name, c.st)
    /\ detached' =
          IF c.name \in (SortFlags \cap Names) \ DOMAIN detached
          THEN Register(detached, c.name, storage[c.name])
          ELSE detached
    /\ emitted' = << >>
    /\ last' = [op |-> "construct", name |-> c.name, input |-> c.st.default,
                before |-> PyNone, err |-> NoError, ret |-> c.st, asks |-> 0]
    /\ UNCHANGED <<askCalls, setter, runner>>

\* a name no setting is ever constructed under
UNREGISTERED == "no.such.setting"

KeyError == [exc |-> "KeyError", msg |-> "", value |-> PyNone, name |-> UNREGISTERED]

\* _storage[name]
GetOf(stor, name) ==
    IF name \in DOMAIN stor THEN [err |-> NoError, ret |-> stor[name]]
    ELSE [err |-> KeyError, ret |-> PyNone]

\* a lookup: nothing but the caller's result changes
Lookup(op, name, r) ==
    /\ last' = [op |-> op, name |-> name, input |-> PyNone, before |-> PyNone,
                err |-> r.err, ret |-> r.ret, asks |-> 0]
    /\ emitted' = << >>
    /\ UNCHANGED <<storage, askCalls, detached, setter, runner>>

\* settings.get(name)
Get(name) == Lookup("get", name, GetOf(storage, name))

\* settings.get_value(name)
GetValue(name) ==
    LET Value(r) == IF r.err = NoError THEN [r EXCEPT !.ret = r.ret.value] ELSE r
    IN  Lookup("get_value", name, Value(GetOf(storage, name)))

\* the values assigned, and the operands, of the runs that construct settings
RegistryInputs ==
    {PyStr(<<"y", "e", "s">>), PyStr(NATURAL), PyStr(RECENTLY_MODIFIED), PyStr(<<"2", "5", "6">>)}
RegistryOperands == {PyInt(1), PyInt(-1), PyStr(<<"a", "b", "c">>)}

NextRegistry ==
    \/ \E c \in Constructible : Construct(c)
    \/ \E name \in Names \cup SortFlags \cup {UNREGISTERED} : Get(name)
    \/ \E name \in Names \cup SortFlags \cup {UNREGISTERED} : GetValue(name)
    \/ \E name \in Names, x \in RegistryInputs : SetValue(name, x)
    \/ \E name \in Names : SetToDefault(name)
    \/ \E name \in Names : Toggle(name)
    \/ \E name \in Names, x \in RegistryOperands : Add(name, x)
    \/ \E name \in Names, x \in RegistryOperands : Mul(name, x)
    \/ \E name \in Names, up \in BOOLEAN : Step(name, up)
    \/ \E name \in Names, answer \in BOOLEAN : Truth(name, answer)
    \/ \E name \in Names, values \in SortInputs : Sort(name, values)
    \/ Reset

\* the program with settings constructed, and looked up, while it runs
SpecRegistry == InitRegistry /\ [][NextRegistry]_vars

(***************************************************************************)
(* The value setter, step by step, with the slots connected to changed     *)
(***************************************************************************)
\* The slots connected to the changed signal of every setting, in the order
\* they were connected.  The connections are direct ones, as Qt makes them
\* between objects of one thread: emit calls each slot in turn and returns
\* when the last has returned.  A slot reads the setting it is told about.
SLOTS == <<"first", "second">>

\* changed.emit returns
EmitReturns(queue) == queue = << >>

\* new_value = self.convert(value); if new_value != self._value
SetterBegin(name, x) ==
    LET Returns(err) ==
            /\ setter' = NoSetter
            /\ last' = [op |-> "set", name |-> name, input |-> x,
                        before |-> storage[name].value, err |-> err, ret |-> PyNone, asks |-> 0]
        Enter(c) ==
            IF ~c.ok THEN Returns(c.err)
            ELSE IF PyNe(c.val, storage[name].value)
            THEN /\ setter' = [NoSetter EXCEPT !.pc = "store", !.name = name, !.input = x,
                                               !.new_value = c.val,
                                               !.before = storage[name].value]
                 /\ UNCHANGED last
            ELSE Returns(NoError)
    IN  /\ setter.pc = "idle"
        /\ Enter(Convert(storage[name], x))
        /\ emitted' = << >>
        /\ UNCHANGED <<storage, askCalls, detached, runner>>

\* an assignment that has not happened when the signal is emitted
StoreValueLater(st, new_value) == st

\* self._value = new_value
StoreValue(st, new_value) == [st EXCEPT !.value = new_value]

SetterStore ==
    /\ setter.pc = "store"
    /\ storage' = [storage EXCEPT ![setter.name] = StoreValue(@, setter.new_value)]
    /\ setter' = [setter EXCEPT !.pc = "emit"]
    /\ UNCHANGED <<emitted, last, askCalls, detached, runner>>

\* self.changed.emit(self._value): the slots are to be called with the value
SetterEmit ==
    /\ setter.pc = "emit"
    /\ emitted' = Signals(setter.name, <<storage[setter.name].value>>)
    /\ setter' = [setter EXCEPT
                    !.pc = "slots",
                    !.queue = [i \in DOMAIN SLOTS |->
                                  [slot |-> SLOTS[i], value |-> storage[setter.name].value]]]
    /\ UNCHANGED <<storage, last, askCalls, detached, runner>>

\* the next slot runs: it reads the value of the setting
SetterSlot ==
    /\ setter.queue # << >>
    /\ setter' = [setter EXCEPT
                    !.queue = Tail(@),
                    !.seen = Append(@, [slot |-> Head(setter.queue).slot,
                                        value |-> Head(setter.queue).value,
                                        read |-> GetOf(storage, setter.name).ret.value])]
    /\ UNCHANGED <<storage, emitted, last, askCalls, detached, runner>>

\* emit returns, and the setter with it
SetterReturn ==
    /\ setter.pc = "slots"
    /\ EmitReturns(setter.queue)
    /\ setter' = [setter EXCEPT !.pc = "idle"]
    /\ last' = [op |-> "set", name |-> setter.name, input |-> setter.input,
                before |-> setter.before, err |-> NoError, ret |-> PyNone, asks |-> 0]
    /\ UNCHANGED <<storage, emitted, askCalls, detached, runner>>

\* the values assigned in the runs that follow the setter step by step
SetterInputs ==
    {PyStr(<<"y", "e", "s">>), PyStr(<<"2", "5", "6">>), PyStr(<<"a", "b", "c">>),
     PyStr(<<"n", "a", "n">>), PyStr(NATURAL), PyInt(3), PyBool(FALSE)}

NextSetter ==
    \/ \E name \in Names, x \in SetterInputs : SetterBegin(name, x)
    \/ SetterStore
    \/ SetterEmit
    \/ SetterSlot
    \/ SetterReturn

\* the program assigning values, one step of the setter at a time
SpecSetter == Init /\ [][NextSetter]_vars

(***************************************************************************)
(* Suggestions                                                             *)
(***************************************************************************)
\* the strings of a list
Strings(list) == {list[i] : i \in DOMAIN list}

\* suggestions(), as the setting's class defines it: the strings it returns
Suggestions(st) ==
    CASE st.kind = "Bool" -> {<<"T", "r", "u", "e">>, <<"F", "a", "l", "s", "e">>}
      [] st.kind = "Prompt" -> {<<"t", "r", "u", "e">>, <<"p", "r", "o", "m", "p", "t">>,
                                <<"f", "a", "l", "s", "e">>}
      [] st.kind = "ThumbnailSize" ->
            {StrOf(PyInt(ALLOWED_VALUES[i])).val.s : i \in DOMAIN ALLOWED_VALUES}
      [] st.kind = "Order" -> st.order_types
      [] OTHER -> Strings(st.suggestions)

\* the first two key sets of metadata.defaults, shortened
KEYSET_1 == <<"E", "x", "i", "f", ".", "I", "m", "a", "g", "e", ".", "M", "a", "k", "e">>
KEYSET_2 == <<"E", "x", "i", "f", ".", "P", "h", "o", "t", "o", ".", "F", "N", "u", "m", "b", "e", "r">>

\* the settings of the catalog that are constructed with suggestions
\* (library.width, whose suggestions are no halves, is left out), and the
\* settings of Catalog, whose classes make their suggestions
CatalogSuggesting ==
    Catalog
    \cup {[name |-> "image.overzoom",
           st |-> NewSetting("Float", PyFloat(2),
                             << <<"1", ".", "0">>, <<"1", ".", "5">>,
                                <<"2", ".", "0">>, <<"5", ".", "0">> >>,
                             PyFloat(2), PyNone, {})],
          [name |-> "metadata.current_keyset",
           st |-> NewSetting("Str", PyStr(KEYSET_1), <<KEYSET_1, KEYSET_2>>,
                             PyNone, PyNone, {})]}

InitSuggestions ==
    /\ \E c \in CatalogSuggesting :
          storage = [n \in Companions(c) \cup {c.name} |->
                        IF n = c.name THEN c.st
                        ELSE NewSetting("Bool", PyBool(FALSE), << >>, PyNone, PyNone, {})]
    /\ emitted = << >>
    /\ last = NoCall
    /\ askCalls = 0
    /\ detached = << >>
    /\ setter = NoSetter
    /\ runner = NoRunner

\* setting.value = text, for a text the setting suggests
SetSuggested(name, text) ==
    Call("suggested", name, PyStr(text), Assign(storage[name], PyStr(text)))

NextSuggestions ==
    \E name \in Names : \E text \in Suggestions(storage[name]) : SetSuggested(name, text)

\* the program assigning to its settings what they suggest
SpecSuggestions == InitSuggestions /\ [][NextSuggestions]_vars

(***************************************************************************)
(* The CommandRunner (vimiv/commands/runners.py)                           *)
(***************************************************************************)
\* the length of the first word of a text that does not start with a blank
WordLen(chars) ==
    IF \E i \in DOMAIN chars : chars[i] = " "
    THEN (CHOOSE i \in DOMAIN chars : chars[i] = " " /\ \A j \in 1..(i - 1) : chars[j] # " ") - 1
    ELSE Len(chars)

RECURSIVE Words(_)
\* shlex.split(text), for a text without quotes and escapes: its words
Words(chars) ==
    IF chars = NoChars THEN << >>
    ELSE IF Head(chars) = " " THEN Words(Tail(chars))
    ELSE <<SubSeq(chars, 1, WordLen(chars))>>
         \o Words(SubSeq(chars, WordLen(chars) + 1, Len(chars)))

\* how many digits a word starts with
LeadingDigits(word) ==
    IF \E i \in DOMAIN word : ~IsDigit(word[i])
    THEN (CHOOSE i \in DOMAIN word : ~IsDigit(word[i]) /\ \A j \in 1..(i - 1) : IsDigit(word[j])) - 1
    ELSE Len(word)

Parsed(exc, count, cmdname, args) ==
    [exc |-> exc, count |-> count, cmdname |-> cmdname, args |-> args]

\* CommandRunner._parse: split[0] of a text without words, and cmdname[0] once
\* the loop has taken every character of a word of digits, raise IndexError
RunnerParse(text) ==
    LET Digits(split, k) ==
            IF k = Len(split[1]) THEN Parsed("IndexError", NoChars, NoChars, << >>)
            ELSE Parsed("none", SubSeq(split[1], 1, k),
                        SubSeq(split[1], k + 1, Len(split[1])), Tail(split))
        Name(split) ==
            IF split = << >> THEN Parsed("IndexError", NoChars, NoChars, << >>)
            ELSE Digits(split, LeadingDigits(split[1]))
    IN  Name(Words(Strip(text)))

\* what commands.get and the command may raise
Raised == {"none", "CommandNotFound", "ArgumentError", "CommandError", "CommandWarning"}

\* the signals.exited.emit of each branch of __call__
Exited(raised) ==
    CASE raised = "none" -> <<[code |-> 0, msg |-> ""]>>
      [] raised = "CommandNotFound" -> <<[code |-> 1, msg |-> "str(e)"]>>
      [] raised \in {"ArgumentError", "CommandError"} -> <<[code |-> 1, msg |-> "cmdname: str(e)"]>>
      [] raised = "CommandWarning" -> <<[code |-> 2, msg |-> "str(w)"]>>

\* CommandRunner.__call__: the text is parsed outside the try statement, so
\* an exception of _parse leaves __call__ with no signal emitted
RunnerCall(text, raised) ==
    LET Try(p) ==
            IF p.exc # "none" THEN [NoRunner EXCEPT !.text = text, !.exc = p.exc]
            ELSE [text |-> text, exc |-> "none", exited |-> Exited(raised),
                  invoked |-> raised # "CommandNotFound", raised |-> raised,
                  cmdname |-> p.cmdname, count |-> p.count, args |-> p.args]
    IN  Try(RunnerParse(text))

\* the texts passed to the runner: a count, a name and arguments, each or all
\* of them missing
Texts ==
    {count \o cmdname \o args :
        count \in {NoChars, <<"2">>, <<"1", "2">>},
        cmdname \in {NoChars, <<"n", "e", "x", "t">>, <<"q">>},
        args \in {NoChars, <<" ">>, <<" ", "a">>, <<" ", "a", " ", " ", "b">>, <<" ", "3">>}}

\* runner(text), the command found or not and raising what it may
Run(text, raised) ==
    /\ runner' = RunnerCall(text, raised)
    /\ last' = [NoCall EXCEPT !.op = "run"]
    /\ emitted' = << >>
    /\ UNCHANGED <<storage, askCalls, detached, setter>>

InitRunner == Init /\ "style" \in DOMAIN storage

NextRunner == \E text \in Texts, raised \in Raised : Run(text, raised)

\* the program running commands
SpecRunner == InitRunner /\ [][NextRunner]_vars

(***************************************************************************)
(* The claims                                                              *)
(***************************************************************************)
\* the setting the last call was made on
Target == storage[last.name]
\* the last call assigned a value the conversion accepted
Assigned == last.op = "set" /\ last.err = NoError

\* C1: assigning an accepted value emits a change notification if and only if
\* the converted value differs (Python's !=) from the value stored just before;
\* then exactly one is emitted and it carries the newly stored, converted
\* value; otherwise the stored value is left as it was and nothing is emitted.
C1_NotifiesIffChanged ==
    LET Holds(c) ==
            /\ c.ok
            /\ (emitted # << >>) <=> PyNe(c.val, last.before)
            /\ emitted # << >> =>
                  /\ emitted = <<[name |-> last.name, value |-> c.val]>>
                  /\ Target.value = c.val
            /\ emitted = << >> => Target.value = last.before
    IN  Assigned => Holds(Convert(Target, last.input))

\* a clamped numeric string was assigned and changed the value
C1_Witness ==
    /\ Assigned
    /\ last.input = PyStr(<<" ", "3", " ">>)
    /\ Target.kind = "Int" /\ Target.max_value = PyInt(2)
    /\ emitted = <<[name |-> last.name, value |-> PyInt(2)]>>
    /\ last.before = PyInt(1)

\* C2: for every variant and every string s its conversion accepts, set
\* value(s) followed by get value returns convert(s), and an immediately
\* repeated set value(s) leaves the value the same and emits nothing.
C2_SetGetIdempotent ==
    LET Holds(c, again) ==
            /\ Target.value = c.val
            /\ again.st = Target
            /\ again.sig = << >>
            /\ again.err = NoError
    IN  (Assigned /\ last.input.t = "str")
            => Holds(Convert(Target, last.input), Assign(Target, last.input))

\* Python's a <= b
PyLe(a, b) == PyLt(a, b) \/ PyEq(a, b)

\* the value lies within the bounds the setting was given
WithinBounds(st) ==
    /\ st.min_value # PyNone => PyLe(st.min_value, st.value)
    /\ st.max_value # PyNone => PyLe(st.value, st.max_value)

\* a number, or a string that denotes a number of the setting's type
NumericInput(st, x) ==
    \/ x.t \in {"int", "float", "inf"}
    \/ x \in {PyStr(<<"1">>), PyStr(<<"0">>), PyStr(<<"2">>), PyStr(<<"-", "1">>),
              PyStr(<<" ", "3", " ">>), PyStr(<<"1", "0", "0">>), PyStr(<<"2", "5", "6">>)}
    \/ st.kind = "Float" /\ x \in {PyStr(<<"1", ".", "5">>), PyStr(<<"i", "n", "f">>)}

\* C3: the value of an Int or Float setting lies within [min, max] after any
\* sequence of set, add, multiply and reset, and a numeric input to set value
\* is clamped, never rejected with an error.
C3_NumberWithinBounds ==
    /\ \A n \in Names : storage[n].kind \in {"Int", "Float"} => WithinBounds(storage[n])
    /\ (last.op = "set" /\ Target.kind \in {"Int", "Float"} /\ NumericInput(Target, last.input))
            => last.err = NoError

\* C4: reset to default leaves the value equal to the default given at
\* construction, the registry-wide reset does so for every registered setting
\* in whatever order it visits them, and no call changes a default.
C4_AfterReset ==
    /\ last.op = "default" => last.err = NoError /\ Target.value = Target.default
    /\ last.op = "reset" =>
          /\ last.err = NoError
          /\ \A n \in Names : storage[n].value = storage[n].default

AssignedTo(kind) == last.op = "set" /\ Target.kind = kind
\* the last call failed with the error the spec calls ConversionError
Rejected == last.err.exc = "ValueError" /\ Target.value = last.before /\ emitted = << >>

\* C5: the ThumbnailSize value is one of 64, 128, 256, 512 in every reachable
\* state; set value with such an integer, or its decimal string, stores it,
\* and set value with any other integer fails with a ConversionError.
C5_ThumbnailSizeAllowed ==
    /\ \A n \in Names : storage[n].kind = "ThumbnailSize" =>
          storage[n].value \in {PyInt(64), PyInt(128), PyInt(256), PyInt(512)}
    /\ AssignedTo("ThumbnailSize") =>
          \A k \in -1..512 :
              last.input \in {PyInt(k), PyStr(IntChars(k))} =>
                  IF k \in {64, 128, 256, 512}
                  THEN last.err = NoError /\ Target.value = PyInt(k)
                  ELSE Rejected

\* the string "256" was assigned and 256 is stored
C5_Witness ==
    /\ AssignedTo("ThumbnailSize")
    /\ last.input = PyStr(<<"2", "5", "6">>)
    /\ last.before = PyInt(128)
    /\ Target.value = PyInt(256)

\* the next larger and the next smaller thumbnail size
SizeUp == (64 :> 128) @@ (128 :> 256) @@ (256 :> 512) @@ (512 :> 512)
SizeDown == (64 :> 64) @@ (128 :> 64) @@ (256 :> 128) @@ (512 :> 256)

\* C6: step up moves to the next larger and step down to the next smaller of
\* 64, 128, 256, 512; at 512 a step up, and at 64 a step down, leaves the
\* value, does not fail and emits nothing.
C6_StepSaturates ==
    /\ last.op = "step_up" =>
          /\ last.err = NoError
          /\ Target.value = PyInt(SizeUp[last.before.n])
          /\ (emitted = << >>) <=> (last.before.n = 512)
    /\ last.op = "step_down" =>
          /\ last.err = NoError
          /\ Target.value = PyInt(SizeDown[last.before.n])
          /\ (emitted = << >>) <=> (last.before.n = 64)

\* a step up was taken at 512
C6_Witness == last.op = "step_up" /\ last.before = PyInt(512) /\ Target.value = PyInt(512)

\* text is the word, in some letter case
IsWord(text, word) ==
    /\ Len(text) = Len(word)
    /\ \A i \in DOMAIN text :
          \/ text[i] = word[i]
          \/ \E k \in DOMAIN UpperChars : UpperChars[k] = text[i] /\ LowerChars[k] = word[i]

IsTrueWord(text) == \E w \in {<<"y", "e", "s">>, <<"t", "r", "u", "e">>, <<"1">>} : IsWord(text, w)
IsFalseWord(text) ==
    \E w \in {<<"n", "o">>, <<"f", "a", "l", "s", "e">>, <<"0">>} : IsWord(text, w)

\* C7: a Bool setting takes yes, true and 1 in any letter case for true, no,
\* false and 0 for false, and fails with a ConversionError on every other
\* string.
C7_BoolWords ==
    (AssignedTo("Bool") /\ last.input.t = "str") =>
        IF IsTrueWord(last.input.s) THEN last.err = NoError /\ Target.value = PyBool(TRUE)
        ELSE IF IsFalseWord(last.input.s) THEN last.err = NoError /\ Target.value = PyBool(FALSE)
        ELSE Rejected

\* "YES" was assigned to a setting that was false
C7_Witness ==
    /\ AssignedTo("Bool")
    /\ last.input = PyStr(<<"Y", "E", "S">>)
    /\ last.before = PyBool(FALSE)
    /\ Target.value = PyBool(TRUE)

\* C8: a Prompt setting takes the boolean words of Bool for its true and false
\* states and ask for its ask state, fails with a ConversionError on every
\* other string, and always holds one of the three states.
C8_PromptWords ==
    /\ \A n \in Names : storage[n].kind = "Prompt" =>
          storage[n].value \in {PyOpt(<<"t", "r", "u", "e">>),
                                PyOpt(<<"f", "a", "l", "s", "e">>), PyOpt(<<"a", "s", "k">>)}
    /\ (AssignedTo("Prompt") /\ last.input.t = "str") =>
          IF IsTrueWord(last.input.s)
          THEN last.err = NoError /\ Target.value = PyOpt(<<"t", "r", "u", "e">>)
          ELSE IF IsFalseWord(last.input.s)
          THEN last.err = NoError /\ Target.value = PyOpt(<<"f", "a", "l", "s", "e">>)
          ELSE IF IsWord(last.input.s, <<"a", "s", "k">>)
          THEN last.err = NoError /\ Target.value = PyOpt(<<"a", "s", "k">>)
          ELSE Rejected

\* "prompt" was rejected by a setting that holds ask
C8_Witness ==
    /\ AssignedTo("Prompt")
    /\ last.input = PyStr(<<"p", "r", "o", "m", "p", "t">>)
    /\ last.err.exc = "ValueError"
    /\ Target.value = PyOpt(<<"a", "s", "k">>)

\* what one evaluation of a Prompt setting's truth does
C9_OneEvaluation ==
    (last.op = "bool" /\ Target.kind = "Prompt") =>
        /\ Target.value = last.before
        /\ emitted = << >>
        /\ last.err = NoError
        /\ last.before = PyOpt(<<"a", "s", "k">>) => last.asks = 1 /\ last.ret = last.input
        /\ last.before = PyOpt(<<"f", "a", "l", "s", "e">>) =>
              last.asks = 0 /\ last.ret = PyBool(FALSE)
        /\ last.before = PyOpt(<<"t", "r", "u", "e">>) =>
              last.asks = 0 /\ last.ret = PyBool(TRUE)

\* C9: the truth of a Prompt setting that holds ask invokes the confirmation
\* once per evaluation (it is never cached) and returns its answer; with false
\* or true it returns that without asking; the evaluation changes no value and
\* emits nothing.
C9_PromptTruth ==
    /\ []C9_OneEvaluation
    /\ [][/\ last'.op = "bool" => storage' = storage
          /\ askCalls' = askCalls +
                (IF last'.op = "bool" /\ last'.before = PyOpt(<<"a", "s", "k">>) THEN 1 ELSE 0)]_vars

\* the second evaluation in a row asked again, and the answer was no
C9_Witness ==
    /\ last.op = "bool"
    /\ last.before = PyOpt(<<"a", "s", "k">>)
    /\ askCalls = 2
    /\ last.ret = PyBool(FALSE)

\* set value failed on a string or an integer
FailedOnText == last.op = "set" /\ last.err # NoError /\ last.input.t \in {"str", "int"}

DenotesInt(x) == x.t = "int" \/ (x.t = "str" /\ IntParse(x.s).ok)

Combined == last.op \in {"add", "mul"}

\* C11: add(x) stores clamp(v + c, min, max) and multiply(x) stores
\* clamp(v * c, min, max), v the value before the call and c the base
\* conversion of x, which is not clamped; the call succeeds whenever x converts,
\* and it emits one notification, carrying the stored value, if and only if
\* the stored value differs (Python's !=) from v.
C11_AddMultiplyClamp ==
    LET Stored(r) ==
            /\ last.err = NoError
            /\ Target.value = clamp(r, Target.min_value, Target.max_value)
            /\ (emitted # << >>) <=> PyNe(Target.value, last.before)
            /\ emitted # << >> => emitted = <<[name |-> last.name, value |-> Target.value]>>
        Holds(c) ==
            IF ~c.ok THEN last.err = c.err
            ELSE IF last.op = "add" THEN Stored(PyAdd(last.before, c.val))
            ELSE Stored(PyMul(last.before, c.val))
    IN  Combined => Holds(BaseConvert(Target, last.input))

\* -1 was added to an Int setting whose minimum is 0: the operand went in
\* unclamped and took the value from 1 to 0
C11_Witness ==
    /\ last.op = "add"
    /\ last.input = PyInt(-1)
    /\ Target.kind = "Int" /\ Target.min_value = PyInt(0)
    /\ last.before = PyInt(1)
    /\ Target.value = PyInt(0)
    /\ emitted = <<[name |-> last.name, value |-> PyInt(0)]>>

\* the list a sort returned, and the list it was passed as it is after the call
Returned == last.ret.s[1]
Passed == last.ret.s[2]

\* how often a path occurs in a list
Count(list, path) == Cardinality({i \in DOMAIN list : list[i] = path})

\* a is not after b in the order of the lowered texts
LowerLe(a, b) == ~StrLt(Lower(b), Lower(a))

\* an alphabetical sort was made while sort.ignore_case was true
SortedIgnoringCase ==
    /\ last.op = "sort"
    /\ last.before = PyStr(<<"a", "l", "p", "h", "a", "b", "e", "t", "i", "c", "a", "l">>)
    /\ storage["sort.ignore_case"].value = PyBool(TRUE)

Strategy == last.before.s
SortKey(path, ignore_case) ==
    IF ignore_case /\ Strategy \in {<<"a", "l", "p", "h", "a", "b", "e", "t", "i", "c", "a", "l">>,
                                    <<"n", "a", "t", "u", "r", "a", "l">>}
    THEN Ordering(Strategy, Lower(path))
    ELSE Ordering(Strategy, path)

\* where a path stood in the list passed (the lists of the model repeat none)
Place(path) == CHOOSE i \in DOMAIN last.input.s : last.input.s[i] = path

\* the list returned is the list passed in the order of the keys, ascending
\* or, reversed, descending, paths of equal keys in the order they came in
SortedBy(ignore_case, reverse) ==
    /\ Len(Returned) = Len(last.input.s)
    /\ \A i \in DOMAIN last.input.s : Count(Returned, last.input.s[i]) = 1
    /\ \A i \in 1..(Len(Returned) - 1) :
          LET Falls == KeyLt(SortKey(Returned[i + 1], ignore_case), SortKey(Returned[i], ignore_case))
              Rises == KeyLt(SortKey(Returned[i], ignore_case), SortKey(Returned[i + 1], ignore_case))
          IN  /\ IF reverse THEN ~Rises ELSE ~Falls
              /\ (~Rises /\ ~Falls) => Place(Returned[i]) < Place(Returned[i + 1])

\* the value of the Bool setting registered under a name
RegisteredFlag(name) == storage[name].value = PyBool(TRUE)

\* the value of the Bool setting the sort namespace holds under a name: the
\* one the module registered when it was loaded
LoadedFlag(name) ==
    IF name \in DOMAIN detached THEN detached[name].value = PyBool(TRUE)
    ELSE storage[name].value = PyBool(TRUE)

\* C13 as stated: every sort uses the values that the settings registered
\* under the names sort.reverse and sort.ignore_case hold at the time of the
\* call, and ignore-case lowers the paths of the alphabetical and natural
\* strategies only.
C13_SortReadsRegisteredFlags ==
    last.op = "sort" =>
        SortedBy(RegisteredFlag("sort.ignore_case"), RegisteredFlag("sort.reverse"))

\* C13 as amended: every sort uses the values that the two Bool settings the
\* module constructed as sort.reverse and sort.ignore_case when it was loaded
\* hold at the time of the call, whatever was constructed under these names
\* since; ignore-case lowers the paths of the alphabetical and natural
\* strategies only.
C13_SortReadsLoadedFlags ==
    last.op = "sort" =>
        SortedBy(LoadedFlag("sort.ignore_case"), LoadedFlag("sort.reverse"))

\* sort.reverse was set to true after the load, then another setting took its
\* name: the sort by modification time still runs in reverse, and does not
\* lower the paths though ignore-case is true
C13_Witness ==
    /\ last.op = "sort"
    /\ "sort.reverse" \in DOMAIN detached
    /\ detached["sort.reverse"].value = PyBool(TRUE)
    /\ storage["sort.reverse"].value = PyBool(FALSE)
    /\ storage["sort.ignore_case"].value = PyBool(TRUE)
    /\ "sort.ignore_case" \notin DOMAIN detached
    /\ Strategy = RECENTLY_MODIFIED
    /\ last.input.s = << <<"b">>, <<"A">>, <<"a">> >>
    /\ Returned = << <<"A">>, <<"a">>, <<"b">> >>

\* the last call looked a name up
LookedUp == last.op \in {"get", "get_value"}

\* what the registry holds after a construction, and what the lookups return
C14_RegistryState ==
    /\ last.op = "construct" => last.name \in Names /\ storage[last.name] = last.ret
    /\ (last.op = "get" /\ last.name \in Names) =>
          last.err = NoError /\ last.ret = storage[last.name]
    /\ (last.op = "get_value" /\ last.name \in Names) =>
          last.err = NoError /\ last.ret = storage[last.name].value
    /\ (LookedUp /\ last.name \notin Names) => last.err.exc = "KeyError"

\* C14: a constructed setting is at once the one registered under its name,
\* in place of any setting registered there before; get returns the setting
\* registered under a name and get_value its current value, and both fail
\* with a KeyError, changing nothing, for a name that is not registered; no
\* call removes a name, and a construction changes no other entry.
C14_RegistryLastWriteWins ==
    /\ []C14_RegistryState
    /\ [][/\ Names \subseteq DOMAIN storage'
          /\ last'.op \in {"get", "get_value"} => storage' = storage
          /\ last'.op = "construct" =>
                \A n \in DOMAIN storage' \ {last'.name} :
                    n \in Names /\ storage'[n] = storage[n]]_vars

\* get returns the setting constructed last under the name sort.reverse
C14_Witness ==
    /\ last.op = "get"
    /\ last.name = "sort.reverse"
    /\ last.ret = storage["sort.reverse"]
    /\ last.ret.default = PyBool(TRUE)
    /\ "sort.reverse" \in DOMAIN detached
    /\ detached["sort.reverse"].default = PyBool(FALSE)

\* what holds of the slots called so far, and once the setter has returned
C15_Delivered ==
    /\ \A i \in DOMAIN setter.seen :
          /\ setter.seen[i].read = setter.seen[i].value
          /\ setter.seen[i].value = setter.new_value
          /\ setter.seen[i].slot = SLOTS[i]
    /\ setter.pc = "idle" => setter.queue = << >>
    /\ (setter.pc = "idle" /\ last.op = "set" /\ emitted # << >>) =>
          /\ Len(setter.seen) = Len(SLOTS)
          /\ emitted = <<[name |-> last.name, value |-> storage[last.name].value]>>

\* C15: the slots connected to changed run inside the call of the setter,
\* after the new value has been stored and before the setter returns; each
\* reads from the setting the value the notification carries, and none is
\* still to run once the setter has returned.
C15_SynchronousNotification ==
    /\ []C15_Delivered
    /\ [][Len(setter'.seen) > Len(setter.seen) =>
              /\ setter.pc = "slots"
              /\ setter'.pc = "slots"
              /\ storage[setter.name].value = setter.new_value
              /\ storage' = storage]_vars

\* the setter has returned from storing 256, and both slots have read 256
C15_Witness ==
    /\ setter.pc = "idle"
    /\ last.op = "set"
    /\ setter.name = "thumbnail.size"
    /\ Len(setter.seen) = 2
    /\ setter.seen[2].read = PyInt(256)
    /\ setter.before = PyInt(128)

\* C16: every call of the CommandRunner emits exited exactly once, whatever
\* the text: with code 0 and an empty message when the command ran, code 1
\* when it was not found or raised an argument or command error, code 2 when
\* it raised a warning; the command is passed the digits its name starts with
\* as count and the other words as arguments.
C16_ExitedOnce ==
    last.op = "run" =>
        /\ runner.exc = "none"
        /\ Len(runner.exited) = 1
        /\ runner.raised = "none" => runner.exited[1] = [code |-> 0, msg |-> ""]
        /\ runner.raised \in {"CommandNotFound", "ArgumentError", "CommandError"} =>
              runner.exited[1].code = 1
        /\ runner.raised = "CommandWarning" => runner.exited[1].code = 2
        /\ LET first == Words(runner.text)[1]
           IN  /\ runner.count \o runner.cmdname = first
               /\ \A i \in DOMAIN runner.count : IsDigit(runner.count[i])
               /\ ~IsDigit(runner.cmdname[1])
               /\ runner.args = Tail(Words(runner.text))

\* the step made was a set value, add, multiply or reset to default that
\* failed with the error the spec calls ConversionError
FailedToAssign ==
    /\ last'.op \in {"set", "add", "mul", "default"}
    /\ last'.err.exc = "ValueError"

\* C17: a set value, add, multiply or reset to default that fails with a
\* ConversionError leaves the setting as it was, its value and its default,
\* emits no change notification, and leaves the registry and every other
\* setting as they were.
C17_FailureChangesNothing ==
    [][FailedToAssign => (storage' = storage /\ emitted' = << >> /\ detached' = detached)]_vars

\* a reset to default failed on a thumbnail size constructed with the default
\* 100, after 256 had been assigned: 256 is still the value
C17_Witness ==
    /\ last.op = "default"
    /\ last.err.exc = "ValueError"
    /\ Target.default = PyInt(100)
    /\ Target.value = PyInt(256)
    /\ emitted = << >>

\* C18: every string a setting of the catalog returns from suggestions() is
\* accepted when it is assigned to that setting: the assignment does not fail.
C18_SuggestionsAccepted ==
    last.op = "suggested" => last.err = NoError

====
